---- MODULE Spec2Model ----
(***************************************************************************)
(* A model of the ClickHouse metadata chat bridge:                         *)
(*   src/src/web_app.py    intent detection, tool dispatch, chat handler   *)
(*   src/src/mcp_server.py the MCP tool server (call_tool)                 *)
(* Texts are TLA+ strings; Len, \o and SubSeq act on them character by     *)
(* character, as Python's len, + and slicing do.  The texts of the source  *)
(* hold characters outside ASCII; each is written here as one ASCII        *)
(* character, so that every length is kept: bullet as *, arrow as >, the   *)
(* box-drawing lines as | - = and their corners and joints as +, and the   *)
(* pictographs clipboard, link, cross mark, bar chart as # & ! %.          *)
(* A string of the model holds the characters U+0000 to U+00FF as they     *)
(* are; Lower, Upper and Whitespace follow Python's str on all of them.    *)
(* The two capitals str.upper() gives outside that range are written by    *)
(* the same rule: capital Y with diaeresis (from U+00FF) as Y and Greek    *)
(* capital mu (from the micro sign U+00B5) as M.  The white space above    *)
(* U+00FF (U+1680, U+2000 to U+200A, U+2028, U+2029, U+202F, U+205F,       *)
(* U+3000) cannot occur in a text of the model.  The texts drawn as        *)
(* inputs of the specifications keep to the characters below U+0080,       *)
(* which TLC stores in a state unchanged.                                  *)
(***************************************************************************)
EXTENDS Integers, Sequences, FiniteSets, TLC

VARIABLES
    job,    \* the pure function under examination and its argument
    out,    \* its result, once applied
    req     \* the state of each request being handled, by request id

vars == <<job, out, req>>

(***************************************************************************)
(* Python string primitives                                                *)
(***************************************************************************)

\* s[i:] with a 1-based i
Drop(s, i) == IF i > Len(s) THEN "" ELSE SubSeq(s, i, Len(s))

\* s[:n]
Take(s, n) == IF n >= Len(s) THEN s ELSE SubSeq(s, 1, n)

\* s.startswith(p)
StartsWith(s, p) == Len(s) >= Len(p) /\ SubSeq(s, 1, Len(p)) = p

\* s.endswith(p)
EndsWith(s, p) == Len(s) >= Len(p) /\ SubSeq(s, Len(s) - Len(p) + 1, Len(s)) = p

\* s.find(p) as a 1-based index, 0 when p does not occur (Python: -1)
RECURSIVE FindFrom(_, _, _)
FindFrom(s, p, i) ==
    IF i + Len(p) - 1 > Len(s) THEN 0
    ELSE IF SubSeq(s, i, i + Len(p) - 1) = p THEN i
    ELSE FindFrom(s, p, i + 1)

Find(s, p) == FindFrom(s, p, 1)

\* p in s
Contains(s, p) == Find(s, p) # 0

\* the characters up to U+00FF that str.lower() changes, and what it makes of
\* them: A to Z, and U+00C0 to U+00DE without the multiplication sign
UpperLetters == "ABCDEFGHIJKLMNOPQRSTUVWXYZÀÁÂÃÄÅÆÇÈÉÊËÌÍÎÏÐÑÒÓÔÕÖØÙÚÛÜÝÞ"
LowerLetters == "abcdefghijklmnopqrstuvwxyzàáâãäåæçèéêëìíîïðñòóôõöøùúûüýþ"

\* the letter of `to` at the place c has in `from`, c itself when it has none
MapChar(c, from, to) ==
    IF \E i \in 1..Len(from) : SubSeq(from, i, i) = c
    THEN LET i == CHOOSE k \in 1..Len(from) : SubSeq(from, k, k) = c
         IN  SubSeq(to, i, i)
    ELSE c

\* s.lower()
RECURSIVE Lower(_)
Lower(s) ==
    IF s = "" THEN ""
    ELSE MapChar(SubSeq(s, 1, 1), UpperLetters, LowerLetters) \o Lower(Drop(s, 2))

\* c.upper() of one character: the letters of LowerLetters go to those of
\* UpperLetters, the sharp s (U+00DF) to the two letters SS, y with diaeresis
\* (U+00FF) and the micro sign (U+00B5) to capitals above U+00FF
UpperChar(c) ==
    IF c = "ß" THEN "SS"
    ELSE IF c = "ÿ" THEN "Y"
    ELSE IF c = "µ" THEN "M"
    ELSE MapChar(c, LowerLetters, UpperLetters)

\* s.upper()
RECURSIVE Upper(_)
Upper(s) ==
    IF s = "" THEN ""
    ELSE UpperChar(SubSeq(s, 1, 1)) \o Upper(Drop(s, 2))

\* the characters up to U+00FF that str.strip() removes: tab, line feed,
\* vertical tab (U+000B), form feed, carriage return, the separators U+001C
\* to U+001F, space, next line (U+0085) and no-break space (U+00A0)
Whitespace ==
    {"\t", "\n", "", "\f", "\r", "", "", "", "", " ", "", " "}

RECURSIVE LStrip(_)
LStrip(s) ==
    IF s # "" /\ SubSeq(s, 1, 1) \in Whitespace THEN LStrip(Drop(s, 2)) ELSE s

RECURSIVE RStrip(_)
RStrip(s) ==
    IF s # "" /\ SubSeq(s, Len(s), Len(s)) \in Whitespace
    THEN RStrip(Take(s, Len(s) - 1)) ELSE s

\* s.strip()
Strip(s) == RStrip(LStrip(s))

\* the concatenation of a sequence of strings
RECURSIVE Concat(_)
Concat(ss) == IF ss = <<>> THEN "" ELSE Head(ss) \o Concat(Tail(ss))

\* any(p(x) for x in xs), xs a sequence: Python evaluates in order; the result
\* is that of the disjunction
AnyWordIn(words, text) == \E i \in 1..Len(words) : Contains(text, words[i])

(***************************************************************************)
(* web_app.detect_intent                                                   *)
(***************************************************************************)

SchemaWords == <<"schema", "create", "ddl", "definition">>
ListWords == <<"list", "show", "tables", "columns", "structure", "database">>

detect_intent_listing_first(message) ==
    LET message_lower == Lower(message) IN
    IF AnyWordIn(ListWords, message_lower) THEN "list_tables_with_columns"
    ELSE IF AnyWordIn(SchemaWords, message_lower) THEN "get_database_schema"
    ELSE "none"

detect_intent(message) ==
    LET message_lower == Lower(message) IN
    IF AnyWordIn(SchemaWords, message_lower) THEN "get_database_schema"
    ELSE IF AnyWordIn(ListWords, message_lower) THEN "list_tables_with_columns"
    ELSE "none"

(***************************************************************************)
(* web_app.chat: removal of the model's thinking text from its reply       *)
(***************************************************************************)

OpenThink == "<think>"
CloseThink == "</think>"
ParagraphBreak == "\n\n"

\* text.split('\n\n', 1)[-1] for a text that contains '\n\n'
AfterFirstBreak(text) == Drop(text, Find(text, ParagraphBreak) + Len(ParagraphBreak))

tool_response_text_keep_thinking(content) == Strip(content)

\* the tool path: response_text of a reply whose message content is `content`
tool_response_text(content) ==
    LET response_text == Strip(content)
        end_think == Find(response_text, CloseThink)
    IN  IF StartsWith(response_text, OpenThink)
        THEN IF end_think # 0
             THEN Strip(Drop(response_text, end_think + 8))
             ELSE IF Contains(response_text, ParagraphBreak)
                  THEN AfterFirstBreak(response_text)
                  ELSE response_text
        ELSE response_text

\* the direct-chat path: the same steps, written out a second time in chat
chat_response_text(content) ==
    LET response_text == Strip(content)
        end_think == Find(response_text, CloseThink)
    IN  IF StartsWith(response_text, OpenThink)
        THEN IF end_think # 0
             THEN Strip(Drop(response_text, end_think + 8))
             ELSE IF Contains(response_text, ParagraphBreak)
                  THEN AfterFirstBreak(response_text)
                  ELSE response_text
        ELSE response_text

(***************************************************************************)
(* web_app: the live catalog texts and the relationship heuristic          *)
(*                                                                         *)
(* A catalog row is <<table_name, column_name, column_type, is_primary>>.  *)
(* The dict `tables` is a sequence of <<table_name, columns>> in insertion *)
(* order, columns a sequence of <<column_name, column_type, key_type>>.    *)
(***************************************************************************)

\* table_name in tables
HasTable(tables, name) == \E i \in 1..Len(tables) : tables[i][1] = name

\* tables[table_name].append(column), creating the entry when it is missing
AddColumn(tables, table_name, column) ==
    IF HasTable(tables, table_name)
    THEN [i \in 1..Len(tables) |->
            IF tables[i][1] = table_name
            THEN <<table_name, Append(tables[i][2], column)>>
            ELSE tables[i]]
    ELSE Append(tables, <<table_name, <<column>>>>)

\* the grouping loop of get_live_database_schema
RECURSIVE GroupSchemaRows(_, _)
GroupSchemaRows(rows, tables) ==
    IF rows = <<>> THEN tables
    ELSE LET row == Head(rows)
             key_type == IF row[4] # 0 THEN "PRIMARY" ELSE ""
         IN  GroupSchemaRows(Tail(rows),
                             AddColumn(tables, row[1], <<row[2], row[3], key_type>>))

\* the grouping loop of get_live_tables_with_columns (no key column)
RECURSIVE GroupColumnRows(_, _)
GroupColumnRows(rows, tables) ==
    IF rows = <<>> THEN tables
    ELSE LET row == Head(rows)
         IN  GroupColumnRows(Tail(rows), AddColumn(tables, row[1], <<row[2], row[3]>>))

\* f"{table_name}.{column_name} > {target_table}.{column_name}"
RelationshipText(table_name, column_name, target_table) ==
    table_name \o "." \o column_name \o " > " \o target_table \o "." \o column_name

\* the relationships one column contributes when key columns are not skipped
ColumnRelationships_key_columns_too(tables, table_name, column) ==
    LET column_name == column[1]
        referenced_table == Take(column_name, Len(column_name) - 3)
    IN  IF EndsWith(column_name, "_id")
           /\ (HasTable(tables, referenced_table)
               \/ HasTable(tables, referenced_table \o "s"))
        THEN <<RelationshipText(table_name, column_name,
                                IF HasTable(tables, referenced_table)
                                THEN referenced_table
                                ELSE referenced_table \o "s")>>
        ELSE <<>>

\* the relationships one column contributes when only the table named like
\* the column is looked up, never its plural
ColumnRelationships_singular_only(tables, table_name, column) ==
    LET column_name == column[1]
        key_type == column[3]
        referenced_table == Take(column_name, Len(column_name) - 3)
    IN  IF EndsWith(column_name, "_id") /\ key_type # "PRIMARY"
           /\ HasTable(tables, referenced_table)
        THEN <<RelationshipText(table_name, column_name, referenced_table)>>
        ELSE <<>>

\* the relationships one column contributes: none or one
ColumnRelationships(tables, table_name, column) ==
    LET column_name == column[1]
        key_type == column[3]
        referenced_table == Take(column_name, Len(column_name) - 3)
    IN  IF EndsWith(column_name, "_id") /\ key_type # "PRIMARY"
        THEN IF HasTable(tables, referenced_table)
                \/ HasTable(tables, referenced_table \o "s")
             THEN LET target_table ==
                          IF HasTable(tables, referenced_table)
                          THEN referenced_table
                          ELSE referenced_table \o "s"
                  IN  <<RelationshipText(table_name, column_name, target_table)>>
             ELSE <<>>
        ELSE <<>>

RECURSIVE TableRelationships(_, _, _)
TableRelationships(tables, table_name, columns) ==
    IF columns = <<>> THEN <<>>
    ELSE ColumnRelationships(tables, table_name, Head(columns))
         \o TableRelationships(tables, table_name, Tail(columns))

RECURSIVE RelationshipsFrom(_, _)
RelationshipsFrom(tables, i) ==
    IF i > Len(tables) THEN <<>>
    ELSE TableRelationships(tables, tables[i][1], tables[i][2])
         \o RelationshipsFrom(tables, i + 1)

detect_relationships(tables) == RelationshipsFrom(tables, 1)

RECURSIVE Spaces(_)
Spaces(n) == IF n <= 0 THEN "" ELSE " " \o Spaces(n - 1)

\* f"{s:<{width}}"
LJust(s, width) == s \o Spaces(width - Len(s))

\* s.center(width): when the padding is odd and the width is odd, the extra
\* space goes to the left
Center(s, width) ==
    LET marg == width - Len(s)
        left == (marg \div 2) + (IF marg % 2 = 1 /\ width % 2 = 1 THEN 1 ELSE 0)
    IN  IF marg <= 0 THEN s ELSE Spaces(left) \o s \o Spaces(marg - left)

\* The result of client.query: the rows, or the exception it raised.
Rows(rows) == [raised |-> FALSE, rows |-> rows]
Raised(error) == [raised |-> TRUE, error |-> error]
Outcome(result) == IF result.raised THEN "raised" ELSE "ok"

RECURSIVE ColumnLines(_)
ColumnLines(columns) ==
    IF columns = <<>> THEN ""
    ELSE "* " \o Head(columns)[1] \o " (" \o Head(columns)[2] \o ")\n"
         \o ColumnLines(Tail(columns))

RECURSIVE TableBlocks(_)
TableBlocks(tables) ==
    IF tables = <<>> THEN ""
    ELSE "# " \o Upper(Head(tables)[1]) \o " TABLE:\n"
         \o ColumnLines(Head(tables)[2]) \o "\n"
         \o TableBlocks(Tail(tables))

get_live_tables_with_columns(result) ==
    IF result.raised THEN "Error getting live tables: " \o result.error
    ELSE IF result.rows = <<>> THEN "No tables found in database"
    ELSE "DATABASE TABLES AND COLUMNS:\n\n"
         \o TableBlocks(GroupColumnRows(result.rows, <<>>))

RECURSIVE SchemaColumnLines(_)
SchemaColumnLines(columns) ==
    IF columns = <<>> THEN ""
    ELSE "| " \o LJust(Head(columns)[1], 16) \o " | " \o LJust(Head(columns)[2], 15)
         \o " | " \o LJust(Head(columns)[3], 14) \o " |\n"
         \o SchemaColumnLines(Tail(columns))

RECURSIVE SchemaBoxes(_)
SchemaBoxes(tables) ==
    IF tables = <<>> THEN ""
    ELSE "+-----------------------------------------------------+\n"
         \o "|" \o Center(Upper(Head(tables)[1]), 53) \o "|\n"
         \o "+------------------+-----------------+----------------+\n"
         \o "| Column Name      | Type            | Key            |\n"
         \o "+------------------+-----------------+----------------+\n"
         \o SchemaColumnLines(Head(tables)[2])
         \o "+------------------+-----------------+----------------+\n\n"
         \o SchemaBoxes(Tail(tables))

RECURSIVE RelationshipLines(_)
RelationshipLines(relationships) ==
    IF relationships = <<>> THEN ""
    ELSE "* " \o Head(relationships) \o "\n" \o RelationshipLines(Tail(relationships))

get_live_database_schema(result) ==
    IF result.raised THEN "Error getting live schema: " \o result.error
    ELSE IF result.rows = <<>> THEN "No tables found in database"
    ELSE LET tables == GroupSchemaRows(result.rows, <<>>)
             relationships == detect_relationships(tables)
         IN  "DATABASE SCHEMA WITH RELATIONSHIPS:\n\n"
             \o SchemaBoxes(tables)
             \o (IF relationships # <<>>
                 THEN "& TABLE RELATIONSHIPS:\n" \o RelationshipLines(relationships)
                 ELSE "")

(***************************************************************************)
(* web_app.get_mock_data: the texts shown when ClickHouse is not available *)
(***************************************************************************)

MockTablesWithColumns ==
    "DATABASE TABLES AND COLUMNS:\n\n# USERS TABLE:\n* user_id (UInt32) - Primary key\n* username (String) - User login name\n* email (String) - Email address\n* first_name (String) - First name\n* last_name (String) - Last name\n* created_at (DateTime) - Account creation date\n* is_active (UInt8) - Active status (0/1)\n* account_type (Enum8) - Account type: free, premium, enterprise\n\n# ORDERS TABLE:\n* order_id (UInt32) - Primary key\n* user_id (UInt32) - Foreign key to users\n* product_id (UInt32) - Foreign key to products\n* quantity (UInt16) - Order quantity\n* total_amount (Decimal(10,2)) - Total order amount\n* order_date (DateTime) - Order timestamp\n* status (Enum8) - Order status: pending, processing, shipped, delivered, cancelled\n* shipping_address (String) - Delivery address\n\n# PRODUCTS TABLE:\n* product_id (UInt32) - Primary key\n* product_name (String) - Product name\n* category (String) - Product category\n* price (Decimal(10,2)) - Product price\n* stock_quantity (UInt32) - Available stock\n* manufacturer (String) - Manufacturer name\n* created_at (DateTime) - Product creation date\n* is_available (UInt8) - Availability status (0/1)\n\n# INVENTORY TABLE:\n* inventory_id (UInt32) - Primary key\n* product_id (UInt32) - Foreign key to products\n* warehouse_id (UInt16) - Warehouse identifier\n* quantity_available (UInt32) - Available quantity\n* quantity_reserved (UInt32) - Reserved quantity\n* last_restocked (DateTime) - Last restock date\n* reorder_level (UInt32) - Minimum stock level\n* reorder_quantity (UInt32) - Reorder amount\n\n# ANALYTICS_EVENTS TABLE:\n* event_id (UUID) - Primary key\n* user_id (UInt32) - Foreign key to users\n* event_type (String) - Type of event\n* event_timestamp (DateTime) - Event time\n* page_url (String) - Page URL\n* session_id (String) - Session identifier\n* device_type (Enum8) - Device: desktop, mobile, tablet\n* browser (String) - Browser name\n* country (String) - User country\n* properties (String) - Additional JSON properties"

MockDatabaseSchema ==
    "DATABASE SCHEMA WITH RELATIONSHIPS:\n\n+-----------------------------------------------------+\n|                    USERS TABLE                      |\n+------------------+-----------------+----------------+\n| Column Name      | Type            | Key            |\n+------------------+-----------------+----------------+\n| user_id          | UInt32          | PRIMARY        |\n| username         | String          |                |\n| email            | String          |                |\n| first_name       | String          |                |\n| last_name        | String          |                |\n| created_at       | DateTime        |                |\n| is_active        | UInt8           |                |\n| account_type     | Enum8           |                |\n+------------------+-----------------+----------------+\n\n+-----------------------------------------------------+\n|                    ORDERS TABLE                     |\n+------------------+-----------------+----------------+\n| Column Name      | Type            | Key            |\n+------------------+-----------------+----------------+\n| order_id         | UInt32          | PRIMARY        |\n| user_id          | UInt32          | FOREIGN        |\n| product_id       | UInt32          | FOREIGN        |\n| quantity         | UInt16          |                |\n| total_amount     | Decimal(10,2)   |                |\n| order_date       | DateTime        |                |\n| status           | Enum8           |                |\n| shipping_address | String          |                |\n+------------------+-----------------+----------------+\n\n+-----------------------------------------------------+\n|                   PRODUCTS TABLE                    |\n+------------------+-----------------+----------------+\n| Column Name      | Type            | Key            |\n+------------------+-----------------+----------------+\n| product_id       | UInt32          | PRIMARY        |\n| product_name     | String          |                |\n| category         | String          |                |\n| price            | Decimal(10,2)   |                |\n| stock_quantity   | UInt32          |                |\n| manufacturer     | String          |                |\n| created_at       | DateTime        |                |\n| is_available     | UInt8           |                |\n+------------------+-----------------+----------------+\n\n+-----------------------------------------------------+\n|                  INVENTORY TABLE                    |\n+------------------+-----------------+----------------+\n| Column Name      | Type            | Key            |\n+------------------+-----------------+----------------+\n| inventory_id     | UInt32          | PRIMARY        |\n| product_id       | UInt32          | FOREIGN        |\n| warehouse_id     | UInt16          |                |\n| quantity_available| UInt32         |                |\n| quantity_reserved| UInt32          |                |\n| last_restocked   | DateTime        |                |\n| reorder_level    | UInt32          |                |\n| reorder_quantity | UInt32          |                |\n+------------------+-----------------+----------------+\n\n+-----------------------------------------------------+\n|                ANALYTICS_EVENTS TABLE              |\n+------------------+-----------------+----------------+\n| Column Name      | Type            | Key            |\n+------------------+-----------------+----------------+\n| event_id         | UUID            | PRIMARY        |\n| user_id          | UInt32          | FOREIGN        |\n| event_type       | String          |                |\n| event_timestamp  | DateTime        |                |\n| page_url         | String          |                |\n| session_id       | String          |                |\n| device_type      | Enum8           |                |\n| browser          | String          |                |\n| country          | String          |                |\n| properties       | String          |                |\n+------------------+-----------------+----------------+\n\n& TABLE RELATIONSHIPS:\n* orders.user_id        > users.user_id\n* orders.product_id     > products.product_id\n* inventory.product_id  > products.product_id\n* analytics_events.user_id > users.user_id"

get_mock_data(tool_name) ==
    IF tool_name = "list_tables_with_columns" THEN MockTablesWithColumns
    ELSE IF tool_name = "get_database_schema" THEN MockDatabaseSchema
    ELSE "Tool result"

(***************************************************************************)
(* format_table_as_ascii, in mcp_server and again in web_app               *)
(* Headers and cells are the texts str() gives.                            *)
(***************************************************************************)

MaxColumnWidth == 50

Max2(a, b) == IF a >= b THEN a ELSE b
Min2(a, b) == IF a <= b THEN a ELSE b

\* max_width after the loop over the first n rows
RECURSIVE MaxWidth(_, _, _, _)
MaxWidth(headers, rows, i, n) ==
    IF n = 0 THEN Len(headers[i])
    ELSE LET before == MaxWidth(headers, rows, i, n - 1)
         IN  IF i <= Len(rows[n]) THEN Max2(before, Len(rows[n][i])) ELSE before

\* the widths without the cap
col_widths_uncapped(headers, rows) ==
    [i \in 1..Len(headers) |-> MaxWidth(headers, rows, i, Len(rows))]

col_widths(headers, rows) ==
    [i \in 1..Len(headers) |-> Min2(MaxWidth(headers, rows, i, Len(rows)), MaxColumnWidth)]

RECURSIVE Repeat(_, _)
Repeat(c, n) == IF n <= 0 THEN "" ELSE c \o Repeat(c, n - 1)

\* sep.join(items)
RECURSIVE Join(_, _)
Join(sep, items) ==
    IF items = <<>> THEN ""
    ELSE IF Len(items) = 1 THEN items[1]
    ELSE items[1] \o sep \o Join(sep, Tail(items))

SeparatorLine(widths) ==
    "+" \o Join("+", [i \in 1..Len(widths) |-> Repeat("-", widths[i] + 2)]) \o "+"

\* the cells of one line, the first n of them
RECURSIVE CellsUpTo(_, _, _)
CellsUpTo(cells, widths, n) ==
    IF n = 0 THEN "|"
    ELSE CellsUpTo(cells, widths, n - 1)
         \o " " \o LJust(Take(cells[n], widths[n]), widths[n]) \o " |"

HeaderLine(headers, widths) == CellsUpTo(headers, widths, Len(headers))

\* a row line that holds only the cells the row has
RowLine_present_cells_only(row, widths) ==
    CellsUpTo(row, widths, Min2(Len(row), Len(widths)))

\* a row shorter than the headers gives empty cells, a longer one is cut
RowLine(row, widths) ==
    CellsUpTo([i \in 1..Len(widths) |-> IF i <= Len(row) THEN row[i] ELSE ""],
              widths, Len(widths))

\* the list `table`: separator, header, separator, the rows, separator
TableLines(headers, rows) ==
    LET widths == col_widths(headers, rows)
        separator == SeparatorLine(widths)
    IN  <<separator, HeaderLine(headers, widths), separator>>
        \o [r \in 1..Len(rows) |-> RowLine(rows[r], widths)]
        \o <<separator>>

\* the sentinel for every table without rows
mcp_format_table_as_ascii_sentinel_without_rows(headers, rows) ==
    IF rows = <<>> THEN "No data available"
    ELSE Join("\n", TableLines(headers, rows))

mcp_format_table_as_ascii(headers, rows) ==
    IF headers = <<>> /\ rows = <<>> THEN "No data available"
    ELSE Join("\n", TableLines(headers, rows))

\* web_app joins the lines with a backslash and the letter n
web_format_table_as_ascii(headers, rows) ==
    IF headers = <<>> /\ rows = <<>> THEN "No data available"
    ELSE Join("\\n", TableLines(headers, rows))

(***************************************************************************)
(* Bounded inputs                                                          *)
(***************************************************************************)

MaxWords == 2
MaxParts == 4
MaxRows == 3

\* all concatenations of at most n members of `parts`
Texts(parts, n) == {Concat(ws) : ws \in UNION {[1..k -> parts] : k \in 0..n}}

\* keywords of both lists in several cases, pieces that make a keyword only
\* when joined, near misses and filler
Vocabulary ==
    {"schema", "CREATE", "Ddl", "definition", "list", "Show", "tables", "columns",
     "structure", "DATABASE", "hello", " ", "sche", "ma", "table", "s"}

ExampleUtterances ==
    {"show me the schema for orders", "list the tables", "hello there"}

Utterances == Texts(Vocabulary, MaxWords) \cup ExampleUtterances

ReplyParts == {"<think>", "</think>", "\n\n", "\n", " ", "ok"}

\* the last two hold white space other than space, tab and line ends: a
\* vertical tab (U+000B) before the tag and at the end, a file separator
\* (U+001C) after the tag
ExampleReplies ==
    {"<think>reasoning</think>Final answer.", "<think>reasoning\n\nFinal answer.",
     "<think>a</think>b", "<think>a</think>b"}

Replies == Texts(ReplyParts, MaxParts) \cup ExampleReplies

\* the tables of the database in the order of ORDER BY table, and the column
\* names a table may have
CatalogTables == <<"orders", "user", "users">>
CatalogColumns == {"id", "user_id", "order_id"}

TableRank(t) == CHOOSE i \in 1..Len(CatalogTables) : CatalogTables[i] = t

CatalogRow ==
    {<<CatalogTables[i], c, "UInt32", k>> :
        i \in 1..Len(CatalogTables), c \in CatalogColumns, k \in {0, 1}}

\* the results of the system.columns query: rows ordered by table, a column
\* name at most once in a table
CatalogRows ==
    {rows \in UNION {[1..n -> CatalogRow] : n \in 0..MaxRows} :
        \A i, j \in 1..Len(rows) :
            i < j => /\ TableRank(rows[i][1]) <= TableRank(rows[j][1])
                     /\ <<rows[i][1], rows[i][2]>> # <<rows[j][1], rows[j][2]>>}

\* the tables given to the renderer: up to MaxColumns headers, up to
\* MaxTableRows rows of 0 to MaxColumns + 1 cells, so that rows shorter than,
\* as long as and longer than the headers occur; headers empty, short and one
\* character longer than a column may be, cells short and as long as that
MaxColumns == 2
MaxTableRows == 2

LongText == Repeat("x", MaxColumnWidth + 1)

HeaderTexts == {"", "Name", LongText}
CellTexts == <<"ab", LongText>>

TableHeaders == UNION {[1..n -> HeaderTexts] : n \in 0..MaxColumns}

\* a row of k cells whose texts rotate through CellTexts from the p-th on
PatternRow(p, k) == [i \in 1..k |-> CellTexts[((i + p) % Len(CellTexts)) + 1]]

TableRow == {PatternRow(p, k) : p \in 1..Len(CellTexts), k \in 0..(MaxColumns + 1)}

TableRowLists == UNION {[1..n -> TableRow] : n \in 0..MaxTableRows}

TableInputs == {[headers |-> h, rows |-> rs] : h \in TableHeaders, rs \in TableRowLists}

(***************************************************************************)
(* The pure functions, each applied to one input drawn from the bounded    *)
(* sets                                                                    *)
(***************************************************************************)

Pending == [done |-> FALSE]
Result(val) == [done |-> TRUE, val |-> val]
NoJob == [fn |-> "none"]
NoRequests == <<>>

ApplyDetectIntent ==
    /\ job.fn = "detect_intent" /\ ~out.done
    /\ out' = Result(detect_intent(job.arg))
    /\ UNCHANGED <<job, req>>

ApplyToolResponseText ==
    /\ job.fn = "tool_response_text" /\ ~out.done
    /\ out' = Result(tool_response_text(job.arg))
    /\ UNCHANGED <<job, req>>

ApplyChatResponseText ==
    /\ job.fn = "chat_response_text" /\ ~out.done
    /\ out' = Result(chat_response_text(job.arg))
    /\ UNCHANGED <<job, req>>

ApplyDetectRelationships ==
    /\ job.fn = "detect_relationships" /\ ~out.done
    /\ out' = Result(detect_relationships(job.arg))
    /\ UNCHANGED <<job, req>>

ApplyMcpFormatTable ==
    /\ job.fn = "mcp_format_table_as_ascii" /\ ~out.done
    /\ out' = Result(mcp_format_table_as_ascii(job.arg.headers, job.arg.rows))
    /\ UNCHANGED <<job, req>>

ApplyWebFormatTable ==
    /\ job.fn = "web_format_table_as_ascii" /\ ~out.done
    /\ out' = Result(web_format_table_as_ascii(job.arg.headers, job.arg.rows))
    /\ UNCHANGED <<job, req>>

Applied(fn) == job.fn = fn /\ out.done

(***************************************************************************)
(* Properties of the pure functions                                        *)
(***************************************************************************)

\* w occurs in s
Occurs(w, s) == \E i \in 1..(Len(s) - Len(w) + 1) : SubSeq(s, i, i + Len(w) - 1) = w

MentionsSchema(u) ==
    \E w \in {"schema", "create", "ddl", "definition"} : Occurs(w, Lower(u))
MentionsListing(u) ==
    \E w \in {"list", "show", "tables", "columns", "structure", "database"} :
        Occurs(w, Lower(u))

\* C1: detect_intent returns get_database_schema when the lower-cased utterance
\* contains one of schema, create, ddl, definition; otherwise
\* list_tables_with_columns when it contains one of list, show, tables, columns,
\* structure, database; otherwise none. Keywords of both sets give
\* get_database_schema.
C1_IntentByKeywordPriority ==
    Applied("detect_intent") =>
        out.val = IF MentionsSchema(job.arg) THEN "get_database_schema"
                  ELSE IF MentionsListing(job.arg) THEN "list_tables_with_columns"
                  ELSE "none"

\* an utterance with keywords of both sets was classified
C1_Witness ==
    /\ Applied("detect_intent")
    /\ MentionsSchema(job.arg) /\ MentionsListing(job.arg)
    /\ job.arg # Lower(job.arg)
    /\ out.val = "get_database_schema"

\* the text of s after the first occurrence of p, for a p that occurs in s
After(s, p) ==
    LET first == CHOOSE i \in 1..Len(s) :
                    /\ i + Len(p) - 1 <= Len(s)
                    /\ SubSeq(s, i, i + Len(p) - 1) = p
                    /\ \A j \in 1..(i - 1) : SubSeq(s, j, j + Len(p) - 1) # p
    IN  IF first + Len(p) > Len(s) THEN "" ELSE SubSeq(s, first + Len(p), Len(s))

ResponseTextApplied == Applied("tool_response_text") \/ Applied("chat_response_text")

\* C2 as stated: on both paths, for a reply that begins with <think>, the
\* visible reply is everything after the first </think>; without one,
\* everything after the first blank-line break; without that either, the reply
\* unmodified.
C2_ThinkStrippedVerbatim ==
    (ResponseTextApplied /\ StartsWith(job.arg, "<think>")) =>
        out.val = IF Occurs("</think>", job.arg) THEN After(job.arg, "</think>")
                  ELSE IF Occurs("\n\n", job.arg) THEN After(job.arg, "\n\n")
                  ELSE job.arg

\* C2 as amended: on both paths the reply is first trimmed of surrounding
\* whitespace; when the trimmed reply begins with <think>, the visible reply is
\* the trimmed text after its first </think>; without one, everything after the
\* first blank-line break of the trimmed reply; without that either, the
\* trimmed reply.
C2_ThinkStrippedAfterTrim ==
    LET trimmed == Strip(job.arg) IN
    (ResponseTextApplied /\ StartsWith(trimmed, "<think>")) =>
        out.val = IF Occurs("</think>", trimmed) THEN Strip(After(trimmed, "</think>"))
                  ELSE IF Occurs("\n\n", trimmed) THEN After(trimmed, "\n\n")
                  ELSE trimmed

\* a reply with thinking text, a closing marker and whitespace before the
\* answer went through the tool path
C2_Witness ==
    /\ Applied("tool_response_text")
    /\ StartsWith(job.arg, "<think>") /\ Occurs("</think>", job.arg)
    /\ out.val # ""
    /\ out.val # After(job.arg, "</think>")

HasPrimaryKey(tables, name) ==
    \E i \in 1..Len(tables) :
        /\ tables[i][1] = name
        /\ \E k \in 1..Len(tables[i][2]) : tables[i][2][k][3] = "PRIMARY"

InSeq(x, s) == \E i \in 1..Len(s) : s[i] = x

\* the entity a column name refers to: the name without its _id
Entity(column_name) == SubSeq(column_name, 1, Len(column_name) - 3)

\* the table is E or E+"s", exists and has a primary-key column
ReferencedCandidates(tables, E) ==
    {X \in {E, E \o "s"} : HasTable(tables, X) /\ HasPrimaryKey(tables, X)}

\* C10 as stated: when table T (or T+"s") exists with a primary-key column,
\* every column named T+"_id" of any table has a relationship to that table in
\* the result.
C10_EveryIdColumnLinked ==
    Applied("detect_relationships") =>
        \A i \in 1..Len(job.arg) : \A k \in 1..Len(job.arg[i][2]) :
            LET column_name == job.arg[i][2][k][1] IN
            (/\ EndsWith(column_name, "_id")
             /\ ReferencedCandidates(job.arg, Entity(column_name)) # {}) =>
                \E X \in {Entity(column_name), Entity(column_name) \o "s"} :
                    /\ HasTable(job.arg, X)
                    /\ InSeq(RelationshipText(job.arg[i][1], column_name, X), out.val)

\* C10 as amended: when table T (or T+"s") exists with a primary-key column,
\* every column named T+"_id" that is not itself a primary-key column has a
\* relationship in the result, to T when T is a table and to T+"s" otherwise.
C10_EveryNonKeyIdColumnLinked ==
    Applied("detect_relationships") =>
        \A i \in 1..Len(job.arg) : \A k \in 1..Len(job.arg[i][2]) :
            LET column_name == job.arg[i][2][k][1]
                E == Entity(column_name)
            IN  (/\ EndsWith(column_name, "_id")
                 /\ job.arg[i][2][k][3] # "PRIMARY"
                 /\ ReferencedCandidates(job.arg, E) # {}) =>
                    InSeq(RelationshipText(job.arg[i][1], column_name,
                                           IF HasTable(job.arg, E) THEN E ELSE E \o "s"),
                          out.val)

\* orders.user_id, not a key, was linked to users, which has a key, there
\* being no table user
C10_Witness ==
    /\ Applied("detect_relationships")
    /\ HasPrimaryKey(job.arg, "users") /\ ~HasTable(job.arg, "user")
    /\ \E i \in 1..Len(job.arg) :
        /\ job.arg[i][1] = "orders"
        /\ InSeq(<<"user_id", "UInt32", "">>, job.arg[i][2])
    /\ InSeq("orders.user_id > users.user_id", out.val)

(***************************************************************************)
(* The requests.  One request is a POST /api/chat (web_app.chat), a POST   *)
(* /api/direct_tool (web_app.direct_tool) or a tool call of the MCP server *)
(* (mcp_server.call_tool).  For each request:                              *)
(*   pc             where its handler stands                               *)
(*   endpoint       which handler it is                                    *)
(*   message        user_message                                           *)
(*   tool_name      the operation name (name in call_tool)                 *)
(*   arguments      the arguments dict                                     *)
(*   client         the ClickHouse client: unbound, none, open or closed   *)
(*   tool_result    the text the dispatch produced                         *)
(*   final_response what query_vllm returned                               *)
(*   response       what the handler answered                              *)
(*   events         what the handler did so far, in order                  *)
(***************************************************************************)

NoArguments == <<>>
NoResponse == [status |-> 0, key |-> "", text |-> ""]
NoLlmResponse == [pending |-> TRUE]

IdleRequest ==
    [pc |-> "idle", endpoint |-> "", message |-> "", tool_name |-> "",
     arguments |-> NoArguments, client |-> "unbound", tool_result |-> "",
     final_response |-> NoLlmResponse, response |-> NoResponse, events |-> <<>>]

MainRequests == {1}

Init ==
    /\ job = NoJob
    /\ out = Pending
    /\ req = [r \in MainRequests |-> IdleRequest]

\* an entry of events: what was done, on what, how it ended, and the state of
\* the client when it was done
Ev(r, ev, what, result) ==
    [ev |-> ev, what |-> what, result |-> result, client |-> req[r].client]

ErrorMessages == {"Connection refused", "Code: 159. Timeout exceeded"}

(***************************************************************************)
(* web_app.chat, up to the dispatch                                        *)
(***************************************************************************)

SampleMessages ==
    {"", "show me the schema for orders", "list the tables", "hello there",
     "Show COLUMNS", "what is the DDL"}

PostChat(r) ==
    /\ req[r].pc = "idle"
    /\ \E m \in SampleMessages :
        req' = [req EXCEPT ![r].pc = "chat", ![r].endpoint = "chat", ![r].message = m]
    /\ UNCHANGED <<job, out>>

\* if not user_message: return jsonify({"error": "No message provided"}), 400
ChatNoMessage(r) ==
    /\ req[r].pc = "chat" /\ req[r].message = ""
    /\ req' = [req EXCEPT ![r].pc = "done",
                          ![r].response = [status |-> 400, key |-> "error",
                                           text |-> "No message provided"]]
    /\ UNCHANGED <<job, out>>

ChatDetectIntent(r) ==
    /\ req[r].pc = "chat" /\ req[r].message # ""
    /\ LET tool_name == detect_intent(req[r].message) IN
       req' = [req EXCEPT ![r].pc = "classified",
                          ![r].tool_name = tool_name,
                          ![r].events = Append(@, Ev(r, "classify", tool_name, "ok"))]
    /\ UNCHANGED <<job, out>>

(***************************************************************************)
(* web_app.direct_tool, up to the dispatch                                 *)
(***************************************************************************)

DirectToolNames ==
    {"", "list_tables_with_columns", "get_database_schema", "drop_table",
     "get_table_schema"}

PostDirectTool(r) ==
    /\ req[r].pc = "idle"
    /\ \E t \in DirectToolNames :
        req' = [req EXCEPT ![r].pc = "direct", ![r].endpoint = "direct_tool",
                           ![r].tool_name = t]
    /\ UNCHANGED <<job, out>>

\* if not tool_name: return jsonify({"error": "No tool name provided"}), 400
DirectNoToolName(r) ==
    /\ req[r].pc = "direct" /\ req[r].tool_name = ""
    /\ req' = [req EXCEPT ![r].pc = "done",
                          ![r].response = [status |-> 400, key |-> "error",
                                           text |-> "No tool name provided"]]
    /\ UNCHANGED <<job, out>>

(***************************************************************************)
(* web_app.call_mcp_tool                                                   *)
(***************************************************************************)

\* the contents system.columns may have for the database
SampleCatalogs ==
    { <<>>,
      <<<<"users", "user_id", "UInt32", 1>>>>,
      << <<"orders", "order_id", "UInt32", 1>>, <<"orders", "user_id", "UInt32", 0>>,
         <<"secrets", "token", "String", 0>>, <<"users", "user_id", "UInt32", 1>> >> }

\* the handler calling call_mcp_tool whatever detect_intent gave
DispatchDue_whatever_the_intent(r) ==
    \/ req[r].endpoint = "chat" /\ req[r].pc = "classified"
    \/ req[r].endpoint = "direct_tool" /\ req[r].pc = "direct" /\ req[r].tool_name # ""

\* the handler is about to call call_mcp_tool
DispatchDue(r) ==
    \/ req[r].endpoint = "chat" /\ req[r].pc = "classified" /\ req[r].tool_name # "none"
    \/ req[r].endpoint = "direct_tool" /\ req[r].pc = "direct" /\ req[r].tool_name # ""

\* get_clickhouse_client() gave a client
WebConnect(r) ==
    /\ DispatchDue(r)
    /\ req' = [req EXCEPT ![r].pc = "web_try", ![r].client = "open",
                          ![r].events = Append(@, Ev(r, "connect", "", "ok"))]
    /\ UNCHANGED <<job, out>>

\* get_clickhouse_client() caught the exception of get_client and gave None:
\* call_mcp_tool returns the mock data
WebConnectFailed(r) ==
    /\ DispatchDue(r)
    /\ req' = [req EXCEPT ![r].pc = "dispatched", ![r].client = "none",
                          ![r].tool_result = get_mock_data(req[r].tool_name),
                          ![r].events = Append(@, Ev(r, "connect", "", "raised"))]
    /\ UNCHANGED <<job, out>>

\* the result of the system.columns query of the web application
WebQuery(r, result) == Ev(r, "query", "system.columns", Outcome(result))

WebListTables(r) ==
    /\ req[r].pc = "web_try" /\ req[r].tool_name = "list_tables_with_columns"
    /\ \E result \in {Rows(c) : c \in SampleCatalogs} \cup {Raised(e) : e \in ErrorMessages} :
        req' = [req EXCEPT ![r].pc = "web_finally",
                           ![r].tool_result = get_live_tables_with_columns(result),
                           ![r].events = Append(@, WebQuery(r, result))]
    /\ UNCHANGED <<job, out>>

WebDatabaseSchema(r) ==
    /\ req[r].pc = "web_try" /\ req[r].tool_name = "get_database_schema"
    /\ \E result \in {Rows(c) : c \in SampleCatalogs} \cup {Raised(e) : e \in ErrorMessages} :
        req' = [req EXCEPT ![r].pc = "web_finally",
                           ![r].tool_result = get_live_database_schema(result),
                           ![r].events = Append(@, WebQuery(r, result))]
    /\ UNCHANGED <<job, out>>

\* any other name: return get_mock_data(tool_name, arguments)
WebOtherTool(r) ==
    /\ req[r].pc = "web_try"
    /\ req[r].tool_name \notin {"list_tables_with_columns", "get_database_schema"}
    /\ req' = [req EXCEPT ![r].pc = "web_finally",
                          ![r].tool_result = get_mock_data(req[r].tool_name)]
    /\ UNCHANGED <<job, out>>

\* the client states after "finally: client.close()", whose own failure is
\* swallowed
web_finally_no_close(client) == client

web_finally(client) == IF client = "open" THEN "closed" ELSE client

\* the step of finally when the client is one object shared by the requests:
\* closing it closes the client of every request
WebClose_closing_every_client(r) ==
    /\ req[r].pc = "web_finally"
    /\ req' = [q \in DOMAIN req |->
                IF q = r
                THEN [req[q] EXCEPT !.pc = "dispatched",
                                    !.client = web_finally(@),
                                    !.events = IF web_finally(req[q].client) # req[q].client
                                               THEN Append(@, Ev(r, "close", "", "ok"))
                                               ELSE @]
                ELSE [req[q] EXCEPT !.client = web_finally(@)]]
    /\ UNCHANGED <<job, out>>

WebClose(r) ==
    /\ req[r].pc = "web_finally"
    /\ req' = [req EXCEPT ![r].pc = "dispatched",
                          ![r].client = web_finally(req[r].client),
                          ![r].events =
                              IF web_finally(req[r].client) # req[r].client
                              THEN Append(@, Ev(r, "close", "", "ok")) ELSE @]
    /\ UNCHANGED <<job, out>>

\* direct_tool: return jsonify({"result": result})
DirectReturn(r) ==
    /\ req[r].endpoint = "direct_tool" /\ req[r].pc = "dispatched"
    /\ req' = [req EXCEPT ![r].pc = "done",
                          ![r].response = [status |-> 200, key |-> "result",
                                           text |-> req[r].tool_result]]
    /\ UNCHANGED <<job, out>>

(***************************************************************************)
(* web_app.query_vllm and the rest of web_app.chat                         *)
(***************************************************************************)

\* the last begins with a vertical tab (U+000B) and has a unit separator
\* (U+001F) after the closing tag
SampleReplies ==
    {"Here are the tables.", "<think>reasoning</think>Final answer.",
     "<think>reasoning\n\nFinal answer.", "<think>reasoning", "<think>a</think> b \n"}

\* a response body of the chat completions API with this message content
Completion(content) ==
    [object |-> "chat.completion",
     choices |-> <<[index |-> 0, message |-> [role |-> "assistant", content |-> content]]>>]

\* bodies a server may send with status 200
ResponseBodies ==
    {Completion(c) : c \in SampleReplies}
    \cup {[object |-> "chat.completion"],
          [object |-> "chat.completion", choices |-> <<>>],
          [object |-> "chat.completion", choices |-> <<[index |-> 0]>>],
          [error |-> "model is loading"]}

\* what requests.post did: raised (connection error, timeout), or gave a response
\* with a status, a text and a body that response.json() parses, Rows(body), or
\* fails to parse
HttpOutcomes ==
    {Raised(e) : e \in {"Connection refused", "Read timed out"}}
    \cup {[raised |-> FALSE, status_code |-> 200, text |-> "", json |-> Rows(b)] :
            b \in ResponseBodies}
    \cup {[raised |-> FALSE, status_code |-> 200, text |-> "<html>",
           json |-> Raised("Expecting value: line 1 column 1 (char 0)")],
          [raised |-> FALSE, status_code |-> 503, text |-> "Service Unavailable",
           json |-> Raised("Expecting value: line 1 column 1 (char 0)")]}

\* the status of the response, when there is one
HttpStatus(outcome) ==
    IF outcome.raised THEN "" ELSE "status " \o ToString(outcome.status_code)

query_vllm(outcome) ==
    IF outcome.raised THEN [error |-> outcome.error]
    ELSE IF outcome.status_code = 200
         THEN IF outcome.json.raised THEN [error |-> outcome.json.error]
              ELSE outcome.json.rows
    ELSE [error |-> "vLLM error: " \o ToString(outcome.status_code) \o " - " \o outcome.text]

\* the handler is about to call query_vllm
ExplainDue(r) ==
    /\ req[r].endpoint = "chat"
    /\ \/ req[r].pc = "classified" /\ req[r].tool_name = "none"
       \/ req[r].pc = "dispatched"

ChatQueryVllm(r) ==
    /\ ExplainDue(r)
    /\ \E outcome \in HttpOutcomes :
        req' = [req EXCEPT ![r].pc = "explained",
                           ![r].final_response = query_vllm(outcome),
                           ![r].events = Append(@, Ev(r, "llm", HttpStatus(outcome),
                                                        Outcome(outcome)))]
    /\ UNCHANGED <<job, out>>

HelpMessage ==
    "I can help you explore ClickHouse tables. Try asking about table schemas or sample data!"

\* "error" in final_response
HasError(final_response) == "error" \in DOMAIN final_response

\* final_response["choices"][0]["message"]["content"] can be evaluated
HasContent(final_response) ==
    /\ "choices" \in DOMAIN final_response
    /\ Len(final_response.choices) >= 1
    /\ "message" \in DOMAIN final_response.choices[1]
    /\ "content" \in DOMAIN final_response.choices[1].message

\* the text chat answers with when query_vllm gave an error
fallback_text_help_always(tool_name, tool_result) == HelpMessage

fallback_text(tool_name, tool_result) ==
    IF tool_name # "none" THEN tool_result ELSE HelpMessage

ChatFallback(r) ==
    /\ req[r].pc = "explained" /\ HasError(req[r].final_response)
    /\ req' = [req EXCEPT ![r].pc = "done",
                          ![r].response =
                              [status |-> 200, key |-> "response",
                               text |-> fallback_text(req[r].tool_name, req[r].tool_result)]]
    /\ UNCHANGED <<job, out>>

ChatReply(r) ==
    /\ req[r].pc = "explained"
    /\ ~HasError(req[r].final_response) /\ HasContent(req[r].final_response)
    /\ LET content == req[r].final_response.choices[1].message.content IN
       req' = [req EXCEPT ![r].pc = "done",
                          ![r].response =
                              [status |-> 200, key |-> "response",
                               text |-> IF req[r].tool_name # "none"
                                        THEN tool_response_text(content)
                                        ELSE chat_response_text(content)]]
    /\ UNCHANGED <<job, out>>

\* the subscripts raise KeyError or IndexError, which nothing in chat catches:
\* the handler ends with the exception
ChatSubscriptRaises(r) ==
    /\ req[r].pc = "explained"
    /\ ~HasError(req[r].final_response) /\ ~HasContent(req[r].final_response)
    /\ req' = [req EXCEPT ![r].pc = "raised"]
    /\ UNCHANGED <<job, out>>

(***************************************************************************)
(* mcp_server.call_tool                                                    *)
(***************************************************************************)

ALLOWED_TABLES == <<"users", "orders", "products", "inventory", "analytics_events">>

AllowedTable(name) == \E i \in 1..Len(ALLOWED_TABLES) : ALLOWED_TABLES[i] = name

Database == "testdb"

McpToolNames == {"get_table_schema", "list_tables", "get_sample_data", "drop_table"}

TableNameArguments == {"users", "secrets", "users; DROP TABLE users"}

\* the arguments dict: table_name and limit, each present or not; a limit is an
\* integer or, the schema not being enforced by call_tool, a string
McpArguments ==
    {NoArguments}
    \cup {[table_name |-> t] : t \in TableNameArguments}
    \cup {[table_name |-> t, limit |-> l] :
            t \in TableNameArguments,
            l \in {[int |-> 3], [int |-> 50], [str |-> "five"]}}
    \cup {[limit |-> [str |-> "five"]]}

CallTool(r) ==
    /\ req[r].pc = "idle"
    /\ \E name \in McpToolNames, arguments \in McpArguments :
        req' = [req EXCEPT ![r].pc = "mcp", ![r].endpoint = "mcp",
                           ![r].tool_name = name, ![r].arguments = arguments]
    /\ UNCHANGED <<job, out>>

\* except Exception as e: the text of the answer
ErrorText(e) == "! Error: " \o e

McpConnect(r) ==
    /\ req[r].pc = "mcp"
    /\ req' = [req EXCEPT ![r].pc = "mcp_try", ![r].client = "open",
                          ![r].events = Append(@, Ev(r, "connect", "", "ok"))]
    /\ UNCHANGED <<job, out>>

\* get_clickhouse_client() raises inside the try: client stays unbound
McpConnectFailed(r) ==
    /\ req[r].pc = "mcp"
    /\ \E e \in ErrorMessages :
        req' = [req EXCEPT ![r].pc = "mcp_finally",
                           ![r].tool_result = ErrorText(e),
                           ![r].events = Append(@, Ev(r, "connect", "", "raised"))]
    /\ UNCHANGED <<job, out>>

\* arguments.get("table_name"), as str() shows it
TableNameOf(arguments) ==
    IF "table_name" \in DOMAIN arguments THEN arguments.table_name ELSE "None"

\* table_name not in ALLOWED_TABLES
TableRejected(arguments) ==
    ~("table_name" \in DOMAIN arguments /\ AllowedTable(arguments.table_name))

\* a parameterized query on a system table for one table, and how it ended
CatalogQuery(r, system_table, table, result) ==
    Ev(r, "query", system_table \o " WHERE table = %(table)s [" \o table \o "]",
       Outcome(result))

\* the rows system.columns may give for a table: name, type, default_kind,
\* default_expression, comment
SampleColumnRows ==
    { <<>>,
      << <<"user_id", "UInt32", "", "", "">>,
         <<"email", "String", "DEFAULT", "''", "Email address">> >> }

\* the rows system.tables may give for a table: engine, total_rows, size
SampleTableInfoRows == {<<>>, <<<<"MergeTree", 3, "1.00 KiB">>>>}

get_table_schema(table_name, columns, table_info) ==
    IF columns.raised
    THEN Raised("Error getting schema for table " \o table_name \o ": " \o columns.error)
    ELSE IF table_info.raised
    THEN Raised("Error getting schema for table " \o table_name \o ": " \o table_info.error)
    ELSE Rows([table_name |-> table_name,
               database |-> Database,
               columns |-> columns.rows,
               engine |-> IF table_info.rows # <<>> THEN table_info.rows[1][1] ELSE "Unknown",
               total_rows |-> IF table_info.rows # <<>> THEN table_info.rows[1][2] ELSE 0,
               total_size |-> IF table_info.rows # <<>> THEN table_info.rows[1][3] ELSE "0B"])

SchemaRow(col) ==
    <<col[1], col[2],
      Take(IF col[3] # "" THEN col[4] ELSE "None", 30),
      Take(IF col[5] # "" THEN col[5] ELSE "", 30)>>

format_schema_response(schema_info) ==
    "\n+============================================================+\n"
    \o "| TABLE: " \o LJust(schema_info.table_name, 52) \o " |\n"
    \o "| Database: " \o LJust(schema_info.database, 49) \o " |\n"
    \o "| Engine: " \o LJust(schema_info.engine, 51) \o " |\n"
    \o "| Total Rows: " \o LJust(ToString(schema_info.total_rows), 47) \o " |\n"
    \o "| Total Size: " \o LJust(schema_info.total_size, 47) \o " |\n"
    \o "+============================================================+\n"
    \o "\nSCHEMA STRUCTURE:\n"
    \o mcp_format_table_as_ascii(
         <<"Column Name", "Type", "Default", "Comment">>,
         [i \in 1..Len(schema_info.columns) |-> SchemaRow(schema_info.columns[i])])

\* the queries get_table_schema issues: the second only when the first passed
SchemaQueries(r, table_name, columns, table_info) ==
    <<CatalogQuery(r, "system.columns", table_name, columns)>>
    \o (IF columns.raised THEN <<>>
        ELSE <<CatalogQuery(r, "system.tables", table_name, table_info)>>)

QueryResults(rowsets) == {Rows(rows) : rows \in rowsets} \cup {Raised(e) : e \in ErrorMessages}

McpGetTableSchema(r) ==
    /\ req[r].pc = "mcp_try" /\ req[r].tool_name = "get_table_schema"
    /\ LET table_name == TableNameOf(req[r].arguments) IN
       IF TableRejected(req[r].arguments)
       THEN req' = [req EXCEPT
                ![r].pc = "mcp_finally",
                ![r].tool_result =
                    "! Table '" \o table_name \o "' is not accessible. Available: "
                    \o Join(", ", ALLOWED_TABLES)]
       ELSE \E columns \in QueryResults(SampleColumnRows),
               table_info \in QueryResults(SampleTableInfoRows) :
            LET schema_info == get_table_schema(table_name, columns, table_info) IN
            req' = [req EXCEPT
                ![r].pc = "mcp_finally",
                ![r].tool_result =
                    IF schema_info.raised THEN ErrorText(schema_info.error)
                    ELSE format_schema_response(schema_info.rows),
                ![r].events = @ \o SchemaQueries(r, table_name, columns, table_info)]
    /\ UNCHANGED <<job, out>>

\* what the query on system.tables did for each allowed table, in order
ListOutcomes ==
    [1..Len(ALLOWED_TABLES) ->
        {Rows(rows) : rows \in SampleTableInfoRows} \cup {Raised("Connection refused")}]

\* the row list_tables appends for one table
ListRow(table, result) ==
    IF result.raised THEN <<table, "Error", "-", "-">>
    ELSE IF result.rows # <<>>
    THEN <<table, result.rows[1][1], ToString(result.rows[1][2]), result.rows[1][3]>>
    ELSE <<table, "Not Found", "0", "0B">>

\* the text when the first query that raises ends the loop over the tables
list_tables_text_stopping_at_error(results) ==
    LET raising == {i \in 1..Len(ALLOWED_TABLES) : results[i].raised}
        last == IF raising = {} THEN Len(ALLOWED_TABLES)
                ELSE (CHOOSE i \in raising : \A j \in raising : i <= j) - 1
    IN  "% Available ClickHouse Tables:\n\n"
        \o mcp_format_table_as_ascii(
             <<"Table Name", "Engine", "Rows", "Size">>,
             [i \in 1..last |-> ListRow(ALLOWED_TABLES[i], results[i])])

list_tables_text(results) ==
    "% Available ClickHouse Tables:\n\n"
    \o mcp_format_table_as_ascii(
         <<"Table Name", "Engine", "Rows", "Size">>,
         [i \in 1..Len(ALLOWED_TABLES) |-> ListRow(ALLOWED_TABLES[i], results[i])])

McpListTables(r) ==
    /\ req[r].pc = "mcp_try" /\ req[r].tool_name = "list_tables"
    /\ \E results \in ListOutcomes :
        req' = [req EXCEPT
            ![r].pc = "mcp_finally",
            ![r].tool_result = list_tables_text(results),
            ![r].events = @ \o [i \in 1..Len(ALLOWED_TABLES) |->
                                  CatalogQuery(r, "system.tables", ALLOWED_TABLES[i],
                                               results[i])]]
    /\ UNCHANGED <<job, out>>

DefaultLimit == 5
MaxLimit == 10

\* min(arguments.get("limit", 5), 10); comparing an int with a str raises
LimitOf(arguments) ==
    IF "limit" \notin DOMAIN arguments THEN Rows(Min2(DefaultLimit, MaxLimit))
    ELSE IF "int" \in DOMAIN arguments.limit THEN Rows(Min2(arguments.limit.int, MaxLimit))
    ELSE Raised("'<' not supported between instances of 'int' and 'str'")

\* the rows of the column-name query and of SELECT *, cells as str() shows them
SampleNameRows == {<<>>, <<<<"user_id">>, <<"email">>>>}
SampleDataRows ==
    {<<>>, << <<"1", "alice@example.com">>, <<"2", "bob@example.com">> >>}

\* f"SELECT * FROM {table_name} LIMIT {limit}"
sample_query(table_name, limit) ==
    "SELECT * FROM " \o table_name \o " LIMIT " \o ToString(limit)

sample_data_text(table_name, limit, columns, rows) ==
    "# Sample Data from '" \o table_name \o "' (first " \o ToString(limit) \o " rows):\n\n"
    \o mcp_format_table_as_ascii([i \in 1..Len(columns) |-> columns[i][1]], rows)

McpGetSampleData(r) ==
    /\ req[r].pc = "mcp_try" /\ req[r].tool_name = "get_sample_data"
    /\ LET table_name == TableNameOf(req[r].arguments)
           limit == LimitOf(req[r].arguments)
       IN  IF limit.raised
           THEN req' = [req EXCEPT ![r].pc = "mcp_finally",
                                   ![r].tool_result = ErrorText(limit.error)]
           ELSE IF TableRejected(req[r].arguments)
           THEN req' = [req EXCEPT
                    ![r].pc = "mcp_finally",
                    ![r].tool_result = "! Table '" \o table_name \o "' is not accessible"]
           ELSE \E columns \in QueryResults(SampleNameRows),
                   result \in QueryResults(SampleDataRows) :
                req' = [req EXCEPT
                    ![r].pc = "mcp_finally",
                    ![r].tool_result =
                        IF columns.raised THEN ErrorText(columns.error)
                        ELSE IF result.raised THEN ErrorText(result.error)
                        ELSE sample_data_text(table_name, limit.rows,
                                              columns.rows, result.rows),
                    ![r].events =
                        @ \o <<CatalogQuery(r, "system.columns", table_name, columns)>>
                          \o (IF columns.raised THEN <<>>
                              ELSE <<Ev(r, "query",
                                        sample_query(table_name, limit.rows),
                                        Outcome(result))>>)]
    /\ UNCHANGED <<job, out>>

McpUnknownTool(r) ==
    /\ req[r].pc = "mcp_try"
    /\ req[r].tool_name \notin {"get_table_schema", "list_tables", "get_sample_data"}
    /\ req' = [req EXCEPT ![r].pc = "mcp_finally",
                          ![r].tool_result = "Unknown tool: " \o req[r].tool_name]
    /\ UNCHANGED <<job, out>>

\* the client states after "finally: client.close()"; with client unbound the
\* NameError is swallowed like any failure of close
mcp_finally(client) == IF client = "open" THEN "closed" ELSE client

McpFinally(r) ==
    /\ req[r].pc = "mcp_finally"
    /\ req' = [req EXCEPT ![r].pc = "done",
                          ![r].client = mcp_finally(req[r].client),
                          ![r].events =
                              IF mcp_finally(req[r].client) # req[r].client
                              THEN Append(@, Ev(r, "close", "", "ok")) ELSE @,
                          ![r].response = [status |-> 200, key |-> "text",
                                           text |-> req[r].tool_result]]
    /\ UNCHANGED <<job, out>>

(***************************************************************************)
(* The specification of the pure functions                                 *)
(***************************************************************************)

ApplyGetTableSchema ==
    /\ job.fn = "get_table_schema" /\ ~out.done
    /\ out' = Result(get_table_schema(job.arg.table_name, job.arg.columns,
                                      job.arg.table_info))
    /\ UNCHANGED <<job, req>>

ApplyListTablesText ==
    /\ job.fn = "list_tables" /\ ~out.done
    /\ out' = Result(list_tables_text(job.arg))
    /\ UNCHANGED <<job, req>>

PureInit ==
    /\ \/ \E u \in Utterances : job = [fn |-> "detect_intent", arg |-> u]
       \/ \E c \in Replies : job = [fn |-> "tool_response_text", arg |-> c]
       \/ \E c \in Replies : job = [fn |-> "chat_response_text", arg |-> c]
       \/ \E rows \in CatalogRows :
            job = [fn |-> "detect_relationships", arg |-> GroupSchemaRows(rows, <<>>)]
       \/ \E t \in TableInputs : job = [fn |-> "mcp_format_table_as_ascii", arg |-> t]
       \/ \E t \in TableInputs : job = [fn |-> "web_format_table_as_ascii", arg |-> t]
       \/ \E columns \in QueryResults(SampleColumnRows),
             table_info \in QueryResults(SampleTableInfoRows) :
            job = [fn |-> "get_table_schema",
                   arg |-> [table_name |-> "users", columns |-> columns,
                            table_info |-> table_info]]
       \/ \E results \in ListOutcomes : job = [fn |-> "list_tables", arg |-> results]
    /\ out = Pending
    /\ req = NoRequests

PureNext ==
    \/ ApplyDetectIntent
    \/ ApplyToolResponseText
    \/ ApplyChatResponseText
    \/ ApplyDetectRelationships
    \/ ApplyMcpFormatTable
    \/ ApplyWebFormatTable
    \/ ApplyGetTableSchema
    \/ ApplyListTablesText

PureSpec == PureInit /\ [][PureNext]_vars

(***************************************************************************)
(* The specification of the handlers                                       *)
(***************************************************************************)

Next ==
    \/ \E r \in DOMAIN req : PostChat(r)
    \/ \E r \in DOMAIN req : ChatNoMessage(r)
    \/ \E r \in DOMAIN req : ChatDetectIntent(r)
    \/ \E r \in DOMAIN req : PostDirectTool(r)
    \/ \E r \in DOMAIN req : DirectNoToolName(r)
    \/ \E r \in DOMAIN req : WebConnect(r)
    \/ \E r \in DOMAIN req : WebConnectFailed(r)
    \/ \E r \in DOMAIN req : WebListTables(r)
    \/ \E r \in DOMAIN req : WebDatabaseSchema(r)
    \/ \E r \in DOMAIN req : WebOtherTool(r)
    \/ \E r \in DOMAIN req : WebClose(r)
    \/ \E r \in DOMAIN req : DirectReturn(r)
    \/ \E r \in DOMAIN req : ChatQueryVllm(r)
    \/ \E r \in DOMAIN req : ChatFallback(r)
    \/ \E r \in DOMAIN req : ChatReply(r)
    \/ \E r \in DOMAIN req : ChatSubscriptRaises(r)
    \/ \E r \in DOMAIN req : CallTool(r)
    \/ \E r \in DOMAIN req : McpConnect(r)
    \/ \E r \in DOMAIN req : McpConnectFailed(r)
    \/ \E r \in DOMAIN req : McpGetTableSchema(r)
    \/ \E r \in DOMAIN req : McpListTables(r)
    \/ \E r \in DOMAIN req : McpGetSampleData(r)
    \/ \E r \in DOMAIN req : McpUnknownTool(r)
    \/ \E r \in DOMAIN req : McpFinally(r)

Spec == Init /\ [][Next]_vars

(***************************************************************************)
(* The specification of concurrent requests to the web application: Flask  *)
(* serves each request in a thread of its own, so the steps of the         *)
(* handlers of two requests interleave in any order                        *)
(***************************************************************************)

ConcurrentRequests == {1, 2}

ConcInit ==
    /\ job = NoJob
    /\ out = Pending
    /\ req = [r \in ConcurrentRequests |-> IdleRequest]

ConcNext ==
    \/ \E r \in DOMAIN req : PostChat(r)
    \/ \E r \in DOMAIN req : ChatNoMessage(r)
    \/ \E r \in DOMAIN req : ChatDetectIntent(r)
    \/ \E r \in DOMAIN req : PostDirectTool(r)
    \/ \E r \in DOMAIN req : DirectNoToolName(r)
    \/ \E r \in DOMAIN req : WebConnect(r)
    \/ \E r \in DOMAIN req : WebConnectFailed(r)
    \/ \E r \in DOMAIN req : WebListTables(r)
    \/ \E r \in DOMAIN req : WebDatabaseSchema(r)
    \/ \E r \in DOMAIN req : WebOtherTool(r)
    \/ \E r \in DOMAIN req : WebClose(r)
    \/ \E r \in DOMAIN req : DirectReturn(r)
    \/ \E r \in DOMAIN req : ChatQueryVllm(r)
    \/ \E r \in DOMAIN req : ChatFallback(r)
    \/ \E r \in DOMAIN req : ChatReply(r)
    \/ \E r \in DOMAIN req : ChatSubscriptRaises(r)

ConcSpec == ConcInit /\ [][ConcNext]_vars

(***************************************************************************)
(* Properties of the handlers                                              *)
(***************************************************************************)

\* how many times a request did something
Count(r, ev) == Cardinality({i \in 1..Len(req[r].events) : req[r].events[i].ev = ev})

\* the request went through a dispatch, which has returned
DispatchReturned(r) ==
    /\ Count(r, "connect") >= 1
    /\ req[r].pc \in {"dispatched", "explained", "done", "raised"}

\* the dispatch got its metadata connection
Acquired(r) ==
    \E i \in 1..Len(req[r].events) :
        req[r].events[i].ev = "connect" /\ req[r].events[i].result = "ok"

\* the connection could not be established, or a catalog query failed
MetadataFailed(r) ==
    \E i \in 1..Len(req[r].events) :
        req[r].events[i].ev \in {"connect", "query"} /\ req[r].events[i].result = "raised"

\* the call of the language model failed: no connection, a timeout, or a
\* status other than 200
LlmFailed(r) ==
    \E i \in 1..Len(req[r].events) :
        /\ req[r].events[i].ev = "llm"
        /\ req[r].events[i].result = "raised" \/ req[r].events[i].what # "status 200"

Ended(r) == req[r].pc \in {"done", "raised"}

\* C3: when the call of the language model fails, chat still answers: with the
\* tool result as dispatch produced it when a tool was dispatched, with the
\* fixed help message when none was.
C3_FallbackWhenLlmFails ==
    \A r \in DOMAIN req :
        (req[r].endpoint = "chat" /\ LlmFailed(r) /\ Ended(r)) =>
            /\ req[r].pc = "done"
            /\ req[r].response.status = 200
            /\ req[r].response.text =
                 IF Count(r, "connect") >= 1 THEN req[r].tool_result
                 ELSE "I can help you explore ClickHouse tables. Try asking about table schemas or sample data!"

\* the model answered 503 after a dispatch that read the live catalog, and the
\* request was answered with that catalog text
C3_Witness ==
    \E r \in DOMAIN req :
        /\ req[r].endpoint = "chat" /\ req[r].pc = "done"
        /\ \E i \in 1..Len(req[r].events) :
            req[r].events[i].ev = "llm" /\ req[r].events[i].what = "status 503"
        /\ Acquired(r) /\ ~MetadataFailed(r)
        /\ StartsWith(req[r].tool_result, "DATABASE TABLES AND COLUMNS:")
        /\ req[r].response.text = req[r].tool_result

\* C4: in both dispatchers a connection that was acquired is closed exactly
\* once before the dispatch returns, on every exit path, and no query is
\* issued on a connection that is not open.
C4_ConnectionClosedOnce ==
    \A r \in DOMAIN req :
        /\ (DispatchReturned(r) /\ Acquired(r)) =>
                Count(r, "close") = 1 /\ req[r].client = "closed"
        /\ Count(r, "close") <= 1
        /\ \A i \in 1..Len(req[r].events) :
                req[r].events[i].ev \in {"query", "close"} =>
                    req[r].events[i].client = "open"

\* a catalog query of the web dispatch raised, and the dispatch returned with
\* its connection closed once
C4_Witness ==
    \E r \in DOMAIN req :
        /\ req[r].endpoint = "direct_tool" /\ req[r].pc = "done"
        /\ \E i \in 1..Len(req[r].events) :
            req[r].events[i].ev = "query" /\ req[r].events[i].result = "raised"
        /\ Count(r, "close") = 1 /\ req[r].client = "closed"

\* the operation is none of those its dispatcher knows
UnknownOperation(r) ==
    \/ /\ req[r].endpoint \in {"chat", "direct_tool"}
       /\ req[r].tool_name \notin {"list_tables_with_columns", "get_database_schema"}
    \/ /\ req[r].endpoint = "mcp"
       /\ req[r].tool_name \notin {"get_table_schema", "list_tables", "get_sample_data"}

\* C5: for an operation name outside the allow-list, the dispatch returns a
\* text that rejects the operation by name, does not raise, and runs no
\* catalog query, whether the database can be reached or not.
C5_UnknownOperationRejected ==
    \A r \in DOMAIN req :
        (DispatchReturned(r) /\ UnknownOperation(r)) =>
            /\ req[r].pc # "raised"
            /\ Occurs(req[r].tool_name, req[r].tool_result)
            /\ Count(r, "query") = 0

TableScoped(r) ==
    req[r].endpoint = "mcp" /\ req[r].tool_name \in {"get_table_schema", "get_sample_data"}

\* the table name is missing or none of the accessible tables
NotAccessible(arguments) ==
    \/ "table_name" \notin DOMAIN arguments
    \/ arguments.table_name
         \notin {"users", "orders", "products", "inventory", "analytics_events"}

\* the text rejects the table by name
RejectsTable(text, arguments) ==
    StartsWith(text, "! Table '"
                     \o (IF "table_name" \in DOMAIN arguments
                         THEN arguments.table_name ELSE "None")
                     \o "' is not accessible")

\* no query of the request mentions its table argument
NoQueryOnTable(r) ==
    \A i \in 1..Len(req[r].events) :
        req[r].events[i].ev = "query" =>
            ~("table_name" \in DOMAIN req[r].arguments
              /\ Occurs(req[r].arguments.table_name, req[r].events[i].what))

\* every SELECT * the request issued names an accessible table
SampleQueriesOnAccessibleTables(r) ==
    \A i \in 1..Len(req[r].events) :
        (req[r].events[i].ev = "query"
         /\ StartsWith(req[r].events[i].what, "SELECT * FROM ")) =>
            \E t \in {"users", "orders", "products", "inventory", "analytics_events"} :
                StartsWith(req[r].events[i].what, "SELECT * FROM " \o t \o " LIMIT ")

\* C6: a table-scoped operation on a table name that is missing or not
\* accessible returns a rejection text and executes no query that mentions the
\* name; every table name in the sample-data SQL is accessible.
C6_InaccessibleTableRejected ==
    \A r \in DOMAIN req :
        /\ (TableScoped(r) /\ req[r].pc = "done" /\ NotAccessible(req[r].arguments)) =>
                /\ RejectsTable(req[r].tool_result, req[r].arguments)
                /\ NoQueryOnTable(r)
        /\ SampleQueriesOnAccessibleTables(r)

\* the limit argument is a string, which min() cannot compare with 10
LimitIsText(arguments) ==
    "limit" \in DOMAIN arguments /\ "str" \in DOMAIN arguments.limit

\* the part of C6 that holds: a table-scoped operation on a table name that
\* is missing or not accessible executes no query; it returns the rejection
\* text when its connection was established and, for get_sample_data, the
\* limit is a number, and the text of that error otherwise. Every table name
\* in the sample-data SQL is accessible.
C6_InaccessibleTableNeverQueried ==
    \A r \in DOMAIN req :
        /\ (TableScoped(r) /\ req[r].pc = "done" /\ NotAccessible(req[r].arguments)) =>
                /\ NoQueryOnTable(r)
                /\ Count(r, "query") = 0
                /\ IF /\ Acquired(r)
                      /\ ~(req[r].tool_name = "get_sample_data"
                           /\ LimitIsText(req[r].arguments))
                   THEN RejectsTable(req[r].tool_result, req[r].arguments)
                   ELSE StartsWith(req[r].tool_result, "! Error: ")
        /\ SampleQueriesOnAccessibleTables(r)

\* get_sample_data on a table name that carries SQL was rejected on an open
\* connection, which was then closed
C6_Witness ==
    \E r \in DOMAIN req :
        /\ req[r].endpoint = "mcp" /\ req[r].pc = "done"
        /\ req[r].tool_name = "get_sample_data"
        /\ "table_name" \in DOMAIN req[r].arguments
        /\ req[r].arguments.table_name = "users; DROP TABLE users"
        /\ Acquired(r) /\ req[r].client = "closed"
        /\ req[r].tool_result = "! Table 'users; DROP TABLE users' is not accessible"

\* C7: when the database cannot be used during the dispatch of an allowed
\* operation, the dispatch does not raise and returns the fallback text of the
\* operation (in the web application its mock data), which holds nothing of
\* the error's message.
C7_SameFallbackWhateverTheError ==
    \A r \in DOMAIN req :
        (/\ DispatchReturned(r) /\ MetadataFailed(r)
         /\ ~UnknownOperation(r)
         /\ TableScoped(r) => ~NotAccessible(req[r].arguments)) =>
            /\ req[r].pc # "raised"
            /\ \A e \in {"Connection refused", "Code: 159. Timeout exceeded"} :
                    ~Occurs(e, req[r].tool_result)
            /\ req[r].endpoint \in {"chat", "direct_tool"} =>
                    req[r].tool_result \in {MockTablesWithColumns, MockDatabaseSchema}

\* the phase of a chat request: Idle 0, Classified 1, Dispatched 2 (from the
\* call of call_mcp_tool on), Explained 3, Done 4
Phase(r) ==
    CASE req[r].pc \in {"idle", "chat"} -> 0
      [] req[r].pc = "classified" -> 1
      [] req[r].pc \in {"web_try", "web_finally", "dispatched"} -> 2
      [] req[r].pc = "explained" -> 3
      [] OTHER -> 4

\* the positions in events of what the request did of one kind
Positions(r, ev) == {i \in 1..Len(req[r].events) : req[r].events[i].ev = ev}

\* the first entry of events is the classification, and it is the only one
ClassifiedOnceFirst(r) == Positions(r, "classify") = {1}

\* at most one dispatch and one LLM call; the dispatch has returned, with its
\* connection no longer open, when the LLM call starts; there is a dispatch
\* only for a classification other than none
DispatchThenExplain(r) ==
    /\ Count(r, "connect") <= 1
    /\ Count(r, "llm") <= 1
    /\ \A i \in Positions(r, "llm") :
          /\ req[r].events[i].client # "open"
          /\ \A j \in 1..Len(req[r].events) :
                req[r].events[j].ev \in {"classify", "connect", "query", "close"} => j < i
    /\ \A i \in Positions(r, "connect") :
          /\ Positions(r, "classify") # {}
          /\ \A j \in Positions(r, "classify") :
                j < i /\ req[r].events[j].what # "none"
    /\ Phase(r) = 2 => req[r].tool_name # "none"

\* C8 as stated: a chat request that has left Idle has exactly one
\* classification, at most one dispatch and at most one LLM call, the dispatch
\* complete before the LLM call and only for a classification other than none.
C8_OneClassificationPerRequest ==
    \A r \in DOMAIN req :
        (req[r].endpoint = "chat" /\ Phase(r) >= 1) =>
            ClassifiedOnceFirst(r) /\ DispatchThenExplain(r)

\* C8 as amended: a chat request never returns to an earlier phase; a request
\* with a non-empty message that has left Idle has exactly one classification,
\* and a request with an empty message is answered with status 400 without
\* any classification, dispatch or LLM call; there is at most one dispatch and
\* at most one LLM call, the dispatch complete before the LLM call and only
\* for a classification other than none.
C8_PhasesInOrder ==
    /\ [](\A r \in DOMAIN req :
            (req[r].endpoint = "chat" /\ Phase(r) >= 1) =>
                /\ IF req[r].message # ""
                   THEN ClassifiedOnceFirst(r)
                   ELSE req[r].events = <<>> /\ req[r].response.status = 400
                /\ DispatchThenExplain(r))
    /\ [][\A r \in DOMAIN req :
            req[r].endpoint = "chat" =>
                /\ Phase(r)' >= Phase(r)
                /\ Phase(r)' \in {Phase(r), Phase(r) + 1}
                   \/ (Phase(r) = 1 /\ Phase(r)' = 3 /\ req[r].tool_name = "none")
                   \/ (Phase(r) = 0 /\ Phase(r)' = 4 /\ req[r].message = "")]_vars

\* a chat request went through every phase: classified, dispatched on a live
\* connection, explained by the language model, answered
C8_Witness ==
    \E r \in DOMAIN req :
        /\ req[r].endpoint = "chat" /\ req[r].pc = "done"
        /\ [i \in 1..Len(req[r].events) |-> req[r].events[i].ev]
             = <<"classify", "connect", "query", "close", "llm">>
        /\ req[r].response.text = "Final answer."

\* C9: no request ends in an exception that nothing handles, whatever the
\* database and the language model do.
C9_NoRequestEndsInFault ==
    \A r \in DOMAIN req : req[r].pc # "raised"

(***************************************************************************)
(* Properties of the renderer                                              *)
(***************************************************************************)

RenderApplied ==
    Applied("mcp_format_table_as_ascii") \/ Applied("web_format_table_as_ascii")

\* the text the copy of the renderer that was applied puts between two lines
Joiner == IF job.fn = "web_format_table_as_ascii" THEN "\\n" ELSE "\n"

\* C11: both copies of format_table_as_ascii return "No data available" when
\* headers and rows are both empty, and something else, which begins with a
\* border line, when either is not.
C11_SentinelOnlyWhenEmpty ==
    RenderApplied =>
        IF job.arg.headers = <<>> /\ job.arg.rows = <<>>
        THEN out.val = "No data available"
        ELSE out.val # "No data available" /\ StartsWith(out.val, "+")

\* rows without headers were rendered, as a box without columns
C11_Witness ==
    /\ Applied("mcp_format_table_as_ascii")
    /\ job.arg.headers = <<>> /\ job.arg.rows # <<>>
    /\ StartsWith(out.val, "++")

\* the largest member of a set of numbers that is not empty
Largest(S) == CHOOSE x \in S : \A y \in S : y <= x

\* the width the claims give column i: the longest of header i and the cells i
\* of the rows that have one, and at most 50
WidthOf(headers, rows, i) ==
    LET longest == Largest({Len(headers[i])}
                           \cup {Len(rows[r][i]) :
                                    r \in {q \in 1..Len(rows) : i <= Len(rows[q])}})
    IN  IF longest < 50 THEN longest ELSE 50

\* the number of characters of a line before the field of column i: the first
\* bar and, for each column before, a space, the cell, a space and a bar
RECURSIVE FieldStart(_, _, _)
FieldStart(headers, rows, i) ==
    IF i = 1 THEN 1
    ELSE FieldStart(headers, rows, i - 1) + WidthOf(headers, rows, i - 1) + 3

\* the length of a line that holds exactly len(headers) fields
LineLength(headers, rows) == FieldStart(headers, rows, Len(headers) + 1)

\* out.val is n lines of the length of len(headers) fields, joined by sep
JoinedLines(n, sep) ==
    LET L == LineLength(job.arg.headers, job.arg.rows) IN
    /\ Len(out.val) = n * L + (n - 1) * Len(sep)
    /\ \A k \in 1..(n - 1) :
          SubSeq(out.val, k * L + (k - 1) * Len(sep) + 1, k * (L + Len(sep))) = sep

\* the k-th of these lines
Line(k, sep) ==
    LET L == LineLength(job.arg.headers, job.arg.rows) IN
    SubSeq(out.val, (k - 1) * (L + Len(sep)) + 1, (k - 1) * (L + Len(sep)) + L)

\* the field of column i in a line: what follows the bar before it, up to and
\* with its own bar
Field(line, i) ==
    SubSeq(line, FieldStart(job.arg.headers, job.arg.rows, i) + 1,
                 FieldStart(job.arg.headers, job.arg.rows, i + 1))

\* the text of a field without the space on either side and the closing bar
Inner(field) == SubSeq(field, 2, Len(field) - 2)

\* a table with headers was rendered
Boxed == RenderApplied /\ job.arg.headers # <<>>

\* C12: whatever the lengths of the rows, the header line and every data line
\* hold exactly len(headers) cells: the cell of a column the row has begins
\* with the text of that cell, cut at the width of the column, a column the
\* row lacks is blank, and nothing follows the last column.
C12_EveryLineHasHeaderCount ==
    Boxed =>
        LET headers == job.arg.headers
            rows == job.arg.rows
        IN  /\ JoinedLines(Len(rows) + 4, Joiner)
            /\ \A k \in {2} \cup {r + 3 : r \in 1..Len(rows)} :
                  LET line == Line(k, Joiner)
                      cells == IF k = 2 THEN headers ELSE rows[k - 3]
                  IN  /\ SubSeq(line, 1, 1) = "|"
                      /\ \A i \in 1..Len(headers) :
                            LET field == Field(line, i) IN
                            /\ SubSeq(field, 1, 1) = " "
                            /\ EndsWith(field, " |")
                            /\ IF i <= Len(cells)
                               THEN StartsWith(Inner(field),
                                               Take(cells[i], WidthOf(headers, rows, i)))
                               ELSE Inner(field) = Spaces(Len(Inner(field)))

\* a table of two columns was rendered with an empty row, a row of one cell
\* and so a blank second cell
C12_Witness ==
    /\ Applied("mcp_format_table_as_ascii")
    /\ job.arg.headers = <<"Name", "">>
    /\ job.arg.rows = <<<<>>, <<LongText>>>>
    /\ EndsWith(out.val, "x |  |\n+" \o Repeat("-", 52) \o "+--+")

\* the width of column i is the longest of header i and the cells i of the
\* rows, at most 50; every header and cell is cut to that width and padded
\* with spaces to exactly that width, so none passes 50 characters; and the
\* borders, the header line and the data lines all have the same length
WidthsCappedAndLinesEqual ==
    LET headers == job.arg.headers
        rows == job.arg.rows
        n == Len(rows) + 4
    IN  /\ JoinedLines(n, Joiner)
        /\ \A k \in {1, 3, n} : \A i \in 1..Len(headers) :
              /\ SubSeq(Line(k, Joiner), 1, 1) = "+"
              /\ Field(Line(k, Joiner), i)
                    = Repeat("-", WidthOf(headers, rows, i) + 2) \o "+"
        /\ \A k \in {2} \cup {r + 3 : r \in 1..Len(rows)} :
              \A i \in 1..Len(headers) :
                  LET cells == IF k = 2 THEN headers ELSE rows[k - 3]
                      text == IF i <= Len(cells) THEN cells[i] ELSE ""
                      width == WidthOf(headers, rows, i)
                      cell == Inner(Field(Line(k, Joiner), i))
                      kept == IF Len(text) <= width THEN text ELSE SubSeq(text, 1, width)
                  IN  /\ Len(cell) = width /\ Len(cell) <= 50
                      /\ cell = kept \o Spaces(width - Len(kept))

\* C13 as stated: in every rendered table (every output that is not the
\* sentinel), the width of column i is the longest of header i and the cells
\* i of the rows, at most 50, every header and cell is cut and padded to
\* exactly that width, and the borders, the header line and the data lines
\* all have the same length.
C13_EveryTableHasLinesOfOneLength ==
    (RenderApplied /\ (job.arg.headers # <<>> \/ job.arg.rows # <<>>)) =>
        WidthsCappedAndLinesEqual

\* C13, as the renderer does it: the widths, the cutting and the padding are
\* as stated for every column; the borders, the header line and the data
\* lines have the same length when there is at least one header; rows
\* rendered without any header give borders "++" of two characters and a
\* header line and data lines "|" of one.
C13_WidthsCappedAndLinesEqual ==
    /\ Boxed => WidthsCappedAndLinesEqual
    /\ (RenderApplied /\ job.arg.headers = <<>> /\ job.arg.rows # <<>>) =>
          out.val = Join(Joiner, <<"++", "|", "++">>
                                 \o [r \in 1..Len(job.arg.rows) |-> "|"]
                                 \o <<"++">>)

\* a cell of 51 characters was cut to 50 in a column whose header is shorter,
\* by the copy of the web application
C13_Witness ==
    /\ Applied("web_format_table_as_ascii")
    /\ job.arg.headers = <<"Name">>
    /\ job.arg.rows = <<<<LongText>>, <<"ab">>>>
    /\ Occurs("| " \o Repeat("x", 50) \o " |", out.val)
    /\ ~Occurs(LongText, out.val)
    /\ Occurs("| Name" \o Spaces(46) \o " |", out.val)

\* C17: for headers that are not empty the output is len(rows) + 4 lines
\* separated by newline characters: border, header line, border, the rows in
\* order, border; and the copy of mcp_server and the copy of web_app return
\* the same text for the same input.
C17_LinesAndCopiesAgree ==
    Boxed =>
        /\ JoinedLines(Len(job.arg.rows) + 4, "\n")
        /\ \A k \in {1, 3, Len(job.arg.rows) + 4} : StartsWith(Line(k, "\n"), "+")
        /\ \A k \in {2} \cup {r + 3 : r \in 1..Len(job.arg.rows)} :
              StartsWith(Line(k, "\n"), "|")
        /\ out.val = mcp_format_table_as_ascii(job.arg.headers, job.arg.rows)
        /\ out.val = web_format_table_as_ascii(job.arg.headers, job.arg.rows)

(***************************************************************************)
(* Properties of the MCP server's operations and of the live texts         *)
(***************************************************************************)

\* C14: get_table_schema fails when the query on system.tables gives no rows
\* (the table is not found) and when a query cannot be executed; in neither
\* case does it return a schema.
C14_MissingTableFails ==
    Applied("get_table_schema") =>
        /\ (job.arg.columns.raised \/ job.arg.table_info.raised) => out.val.raised
        /\ (~job.arg.columns.raised /\ ~job.arg.table_info.raised
            /\ job.arg.table_info.rows = <<>>) => out.val.raised

\* C15: every rejection call_tool returns carries a list: that of a table the
\* accessible tables, that of an operation the valid operations.
C15_RejectionCarriesList ==
    \A r \in DOMAIN req :
        (req[r].endpoint = "mcp" /\ req[r].pc = "done") =>
            /\ StartsWith(req[r].tool_result, "! Table '") =>
                  Occurs("users, orders, products, inventory, analytics_events",
                         req[r].tool_result)
            /\ StartsWith(req[r].tool_result, "Unknown tool: ") =>
                  \A name \in {"get_table_schema", "list_tables", "get_sample_data"} :
                      Occurs(name, req[r].tool_result)

\* the columns that qualify as the source of a relationship, as <<table,
\* column, target>>: not a key, named E_id, with E or E+"s" a table
QualifyingColumns(tables) ==
    UNION {{<<tables[i][1], tables[i][2][k][1],
              IF HasTable(tables, Entity(tables[i][2][k][1]))
              THEN Entity(tables[i][2][k][1]) ELSE Entity(tables[i][2][k][1]) \o "s">> :
              k \in {c \in 1..Len(tables[i][2]) :
                       /\ EndsWith(tables[i][2][c][1], "_id")
                       /\ tables[i][2][c][3] # "PRIMARY"
                       /\ \/ HasTable(tables, Entity(tables[i][2][c][1]))
                          \/ HasTable(tables, Entity(tables[i][2][c][1]) \o "s")}} :
           i \in 1..Len(tables)}

\* C16: every relationship detect_relationships gives has as source a column
\* that is no key and is named E_id, as target the table E when E is a table
\* and E+"s", a table, otherwise, the same column name on both sides, and no
\* column is the source of two relationships.
C16_OnlyQualifyingColumnsLinked ==
    Applied("detect_relationships") =>
        /\ \A n \in 1..Len(out.val) :
              \E q \in QualifyingColumns(job.arg) :
                  /\ out.val[n] = q[1] \o "." \o q[2] \o " > " \o q[3] \o "." \o q[2]
                  /\ HasTable(job.arg, q[3])
        /\ \A n, m \in 1..Len(out.val) : n # m => out.val[n] # out.val[m]
        /\ Len(out.val) <= Cardinality(QualifyingColumns(job.arg))

\* with tables user and users both known, orders.user_id was linked to user
\* alone, and the key user_id of users to nothing
C16_Witness ==
    /\ Applied("detect_relationships")
    /\ HasTable(job.arg, "user")
    /\ \E i \in 1..Len(job.arg) :
        job.arg[i] = <<"orders", <<<<"user_id", "UInt32", "">>>>>>
    /\ \E i \in 1..Len(job.arg) :
        job.arg[i] = <<"users", <<<<"user_id", "UInt32", "PRIMARY">>>>>>
    /\ out.val = <<"orders.user_id > user.user_id">>

\* C18: the texts of get_database_schema and list_tables_with_columns hold no
\* table outside the allow-list of accessible tables: the table secrets, which
\* the catalog may hold, appears neither as a table nor in a relationship.
C18_OnlyAccessibleTablesShown ==
    \A r \in DOMAIN req :
        (req[r].endpoint \in {"chat", "direct_tool"} /\ DispatchReturned(r)) =>
            \A name \in {"secrets", "SECRETS"} : ~Occurs(name, req[r].tool_result)

\* the row the claim gives a table: of the result of its query
ExpectedListRow(table, result) ==
    CASE result.raised -> <<table, "Error", "-", "-">>
      [] ~result.raised /\ result.rows = <<>> -> <<table, "Not Found", "0", "0B">>
      [] OTHER -> <<table, "MergeTree", "3", "1.00 KiB">>

\* C20: list_tables gives one row per allow-listed table, in the order of the
\* list, whatever the queries did: engine, rows and size for a table whose
\* query gave a row, the Not Found row for one whose query gave none, the
\* Error row for one whose query raised, the tables after it still listed.
C20_OneRowPerAllowedTable ==
    Applied("list_tables") =>
        out.val = "% Available ClickHouse Tables:\n\n"
                  \o mcp_format_table_as_ascii(
                       <<"Table Name", "Engine", "Rows", "Size">>,
                       <<ExpectedListRow("users", job.arg[1]),
                         ExpectedListRow("orders", job.arg[2]),
                         ExpectedListRow("products", job.arg[3]),
                         ExpectedListRow("inventory", job.arg[4]),
                         ExpectedListRow("analytics_events", job.arg[5])>>)

\* the query for orders raised and the one for products gave no rows, and
\* inventory and analytics_events were still listed
C20_Witness ==
    /\ Applied("list_tables")
    /\ ~job.arg[1].raised /\ job.arg[1].rows # <<>>
    /\ job.arg[2].raised
    /\ ~job.arg[3].raised /\ job.arg[3].rows = <<>>
    /\ Occurs("| orders           | Error     | -    | -        |\n"
              \o "| products         | Not Found | 0    | 0B       |\n"
              \o "| inventory ", out.val)
    /\ Occurs("\n| analytics_events | ", out.val)

(***************************************************************************)
(* Properties of concurrent requests                                       *)
(***************************************************************************)

\* the results of the catalog query of a dispatch that ended as the query of
\* request r did
QueryResultsLike(r) ==
    {x \in {Rows(c) : c \in SampleCatalogs} \cup {Raised(e) : e \in ErrorMessages} :
        \E i \in Positions(r, "query") : req[r].events[i].result = Outcome(x)}

\* the texts the dispatch of request r gives when the request is run alone
\* and its connection and its query end as they did
ToolResultsAlone(r) ==
    IF ~Acquired(r) THEN {get_mock_data(req[r].tool_name)}
    ELSE IF req[r].tool_name = "list_tables_with_columns"
    THEN {get_live_tables_with_columns(x) : x \in QueryResultsLike(r)}
    ELSE IF req[r].tool_name = "get_database_schema"
    THEN {get_live_database_schema(x) : x \in QueryResultsLike(r)}
    ELSE {get_mock_data(req[r].tool_name)}

\* the tool of request r, when chat has just classified its message, is the
\* one detect_intent gives for that message
ClassifiedAsWhenAlone(r) ==
    req[r].pc = "classified" => req[r].tool_name = detect_intent(req[r].message)

\* the text chat answers with when the request is run alone with the tool,
\* the tool result and the response of the language model it had
ChatTextAlone(r) ==
    LET final_response == req[r].final_response
        dispatched == req[r].tool_name # "none"
    IN  IF "error" \in DOMAIN final_response
        THEN IF dispatched THEN req[r].tool_result
             ELSE "I can help you explore ClickHouse tables. Try asking about table schemas or sample data!"
        ELSE IF dispatched
        THEN tool_response_text(final_response.choices[1].message.content)
        ELSE chat_response_text(final_response.choices[1].message.content)

\* the answer of request r is the one it gives alone
AnswerAlone(r) ==
    req[r].response.status = 200 =>
        req[r].response.text =
            IF req[r].endpoint = "chat" THEN ChatTextAlone(r) ELSE req[r].tool_result

\* request r used its connection as it does alone: one connection at most,
\* closed once, every query and the close while it is open, and closed when
\* the dispatch has returned
ConnectionAsWhenAlone(r) ==
    /\ Count(r, "connect") <= 1 /\ Count(r, "close") <= 1
    /\ \A i \in 1..Len(req[r].events) :
          req[r].events[i].ev \in {"query", "close"} => req[r].events[i].client = "open"
    /\ (DispatchReturned(r) /\ Acquired(r)) => req[r].client = "closed"

\* the tool result of request r, when its dispatch has just produced it, is
\* the one the dispatch produces alone
ToolResultAsWhenAlone(r) ==
    req[r].pc \in {"web_finally", "dispatched"} =>
        req[r].tool_result \in ToolResultsAlone(r)

\* C19: with two requests handled concurrently, in every interleaving, every
\* query and close of a request is on its own connection while that is open,
\* the connection of a request changes only in a step of that request, no
\* step of one request changes anything of the other, the message, the tool
\* and the tool result of a request are written only where its own handler
\* writes them, and the tool, the tool result and the answer a request gets
\* are those it gets when run alone with the same outcomes of the catalog
\* and of the language model.
C19_RequestsDoNotInterfere ==
    /\ [](\A r \in DOMAIN req :
            /\ ConnectionAsWhenAlone(r)
            /\ ClassifiedAsWhenAlone(r)
            /\ ToolResultAsWhenAlone(r)
            /\ AnswerAlone(r))
    /\ [][\A r \in DOMAIN req :
            /\ req[r].client' # req[r].client => req[r].pc' # req[r].pc
            /\ req[r].message' # req[r].message => req[r].pc' = "chat"
            /\ req[r].tool_name' # req[r].tool_name =>
                  req[r].pc' \in {"classified", "direct"}
            /\ req[r].tool_result' # req[r].tool_result =>
                  req[r].pc' \in {"web_finally", "dispatched"}
            /\ \A q \in DOMAIN req \ {r} : req[r]' # req[r] => req[q]' = req[q]]_vars

\* request 2 was answered, its connection closed, while request 1 is in its
\* dispatch with its own connection open
C19_Witness ==
    /\ DOMAIN req = {1, 2}
    /\ req[1].pc = "web_try" /\ req[1].client = "open"
    /\ req[2].pc = "done" /\ req[2].client = "closed"
    /\ req[2].endpoint = "chat" /\ req[2].response.text = "Final answer."

====
